---- MODULE Spec2Model ----
(***************************************************************************)
(* Model of the decision and risk-control engine of recall-ai-agent:       *)
(* the risk manager (src/risk/manager.py), the rate limiter                *)
(* (src/rate_limiter.py) and the control loop (src/main.py).               *)
(*                                                                         *)
(* Time is the value of time.time() counted in tenths of a second, so that *)
(* the 0.1 s slack of the rate limiter is one unit.  Money is counted in   *)
(* whole units of account.  Ratios (drawdown, percentages) are compared by *)
(* cross-multiplication, never rounded.                                    *)
(***************************************************************************)
EXTENDS Integers, Sequences, FiniteSets, TLC

VARIABLES
    now,        \* time.time(), in tenths of a second
    ticks,      \* number of clock advances so far
    risk,       \* the RiskManager object
    ret,        \* what the last risk-manager call returned
    marks,      \* number of mark_trade calls so far
    windows,    \* RateLimiter.windows
    acq,        \* what the last RateLimiter.acquire call returned
    hist,       \* log of the slots granted by the rate limiter
    limits,     \* RateLimiter.limits
    callers,    \* the threads calling wait_and_acquire, each with its position
    sent,       \* log of the requests the client has sent to the venue
    universe,   \* run(): the discovered tokens, in discovery order
    pc,         \* run(): position of the control loop in its cycle
    cycles,     \* run(): number of cycles started
    faults,     \* number of venue calls that have failed so far
    price_series,   \* run(): key -> PriceSeries.values
    last_rebalance, \* run(): last_rebalance
    last_log,       \* run(): last_log
    eq_series,      \* run(): eq_series
    c,          \* run(): the locals of the current cycle
    last_order, \* the last order handed to the executor, with its outcome
    strat,      \* run(): the strategy configuration read at startup
    sig         \* the last result of the signal engine, with its input

riskVars == <<risk, ret, marks>>
rlVars == <<windows, acq, hist, limits, callers, sent>>
loopVars == <<universe, pc, cycles, faults, price_series, last_rebalance,
              last_log, eq_series, c, last_order, strat, sig>>
vars == <<now, ticks, risk, ret, marks, windows, acq, hist, limits, callers, sent,
          universe, pc, cycles, faults, price_series, last_rebalance,
          last_log, eq_series, c, last_order, strat, sig>>

(***************************************************************************)
(* Bounds of the model                                                     *)
(***************************************************************************)
MaxTicks == 3
MaxMarks == 2

(***************************************************************************)
(* Clock                                                                   *)
(***************************************************************************)
DayLen == 864000
StartNow == 2591000
TickSteps == {10, 200, DayLen}

Day(t) == (t \div 10) \div (DayLen \div 10)

Max(a, b) == IF a >= b THEN a ELSE b
Min(a, b) == IF a <= b THEN a ELSE b

(***************************************************************************)
(* RiskParams                                                              *)
(***************************************************************************)
min_daily_trades == 1
max_daily_trades == 2
cooldown_seconds == 200
max_drawdown_stop_num == 20
max_drawdown_stop_den == 100

None == -1
EquityVals == {0, 799, 800, 801, 1000}

(***************************************************************************)
(* RiskManager                                                             *)
(***************************************************************************)
RiskManagerInit(t) ==
    [ daily_count       |-> 0,
      day_start         |-> Day(t),
      last_trade_ts     |-> 0,
      equity_peak       |-> None,
      stopped           |-> FALSE,
      daily_trade_times |-> << >> ]

\* variant: the new day also clears the stop flag
_reset_if_new_day_clears_stop(r, t) ==
    IF Day(t) # r.day_start
    THEN [r EXCEPT !.day_start = Day(t),
                   !.daily_count = 0,
                   !.daily_trade_times = << >>,
                   !.stopped = FALSE]
    ELSE r

\* variant: the new day moves the day marker but keeps the count
_reset_if_new_day_keeps_count(r, t) ==
    IF Day(t) # r.day_start
    THEN [r EXCEPT !.day_start = Day(t)]
    ELSE r

_reset_if_new_day(r, t) ==
    IF Day(t) # r.day_start
    THEN [r EXCEPT !.day_start = Day(t),
                   !.daily_count = 0,
                   !.daily_trade_times = << >>]
    ELSE r

mark_trade(r, t) ==
    [r EXCEPT !.daily_count = r.daily_count + 1,
              !.last_trade_ts = t,
              !.daily_trade_times = Append(r.daily_trade_times, t)]

get_daily_trade_count(r, t) ==
    LET r1 == _reset_if_new_day(r, t)
    IN  [r |-> r1, val |-> r1.daily_count]

needs_more_trades(r, t) ==
    LET r1 == _reset_if_new_day(r, t)
    IN  [r |-> r1, val |-> r1.daily_count < min_daily_trades]

\* variant: strict comparison dd > max_drawdown_stop
DrawdownReached_strict(peak, equity_usd) ==
    IF peak <= 0
    THEN 0 > max_drawdown_stop_num
    ELSE (peak - equity_usd) * max_drawdown_stop_den > max_drawdown_stop_num * peak

\* dd >= max_drawdown_stop, with dd = 0.0 when the peak is not positive
DrawdownReached(peak, equity_usd) ==
    IF peak <= 0
    THEN 0 >= max_drawdown_stop_num
    ELSE (peak - equity_usd) * max_drawdown_stop_den >= max_drawdown_stop_num * peak

\* variant: the cooldown is tested before the daily cap
check_pretrade_cooldown_first(r, t, equity_usd) ==
    IF r.stopped
    THEN [r |-> r, ok |-> FALSE, why |-> "Drawdown stop active"]
    ELSE
      LET r1 == _reset_if_new_day(r, t)
          first == r1.equity_peak = None
          r2 == [r1 EXCEPT !.equity_peak =
                     IF first THEN equity_usd ELSE Max(r1.equity_peak, equity_usd)]
      IN  IF ~first /\ DrawdownReached(r2.equity_peak, equity_usd)
          THEN [r |-> [r2 EXCEPT !.stopped = TRUE], ok |-> FALSE, why |-> "Drawdown"]
          ELSE IF t - r2.last_trade_ts < cooldown_seconds
          THEN [r |-> r2, ok |-> FALSE, why |-> "Cooldown"]
          ELSE IF r2.daily_count >= max_daily_trades
          THEN [r |-> r2, ok |-> FALSE, why |-> "Daily cap"]
          ELSE [r |-> r2, ok |-> TRUE, why |-> "OK"]

\* variant: the peak is overwritten by the equity of the call
check_pretrade_peak_overwritten(r, t, equity_usd) ==
    IF r.stopped
    THEN [r |-> r, ok |-> FALSE, why |-> "Drawdown stop active"]
    ELSE
      LET r1 == _reset_if_new_day(r, t)
          first == r1.equity_peak = None
          r2 == [r1 EXCEPT !.equity_peak = equity_usd]
      IN  IF ~first /\ DrawdownReached(r2.equity_peak, equity_usd)
          THEN [r |-> [r2 EXCEPT !.stopped = TRUE], ok |-> FALSE, why |-> "Drawdown"]
          ELSE IF r2.daily_count >= max_daily_trades
          THEN [r |-> r2, ok |-> FALSE, why |-> "Daily cap"]
          ELSE IF t - r2.last_trade_ts < cooldown_seconds
          THEN [r |-> r2, ok |-> FALSE, why |-> "Cooldown"]
          ELSE [r |-> r2, ok |-> TRUE, why |-> "OK"]

check_pretrade(r, t, equity_usd) ==
    IF r.stopped
    THEN [r |-> r, ok |-> FALSE, why |-> "Drawdown stop active"]
    ELSE
      LET r1 == _reset_if_new_day(r, t)
          first == r1.equity_peak = None
          r2 == [r1 EXCEPT !.equity_peak =
                     IF first THEN equity_usd ELSE Max(r1.equity_peak, equity_usd)]
      IN  IF ~first /\ DrawdownReached(r2.equity_peak, equity_usd)
          THEN [r |-> [r2 EXCEPT !.stopped = TRUE], ok |-> FALSE, why |-> "Drawdown"]
          ELSE IF r2.daily_count >= max_daily_trades
          THEN [r |-> r2, ok |-> FALSE, why |-> "Daily cap"]
          ELSE IF t - r2.last_trade_ts < cooldown_seconds
          THEN [r |-> r2, ok |-> FALSE, why |-> "Cooldown"]
          ELSE [r |-> r2, ok |-> TRUE, why |-> "OK"]

(***************************************************************************)
(* RateLimiter                                                             *)
(*                                                                         *)
(* An endpoint name is represented by the set of the keywords 'trade',     *)
(* 'price', 'balance', 'portfolio' that occur in it as substrings; acquire *)
(* reads nothing else of the name.                                         *)
(***************************************************************************)
trade_operations == 2
price_queries == 1
balance_checks == 1
global_rpm == 3
global_rph == 4

Endpoints == { {"trade"}, {"price"}, {"portfolio"}, {} }

WindowNames == {"trade", "price", "balance", "global_rpm", "global_rph"}

\* the limits the limiter is constructed with
Limits ==
    [trade_operations |-> trade_operations, price_queries |-> price_queries,
     balance_checks |-> balance_checks, global_rpm |-> global_rpm,
     global_rph |-> global_rph]

\* self.limits.get(...) for the window `name`
Limit(name) ==
    CASE name = "trade" -> limits.trade_operations
      [] name = "price" -> limits.price_queries
      [] name = "balance" -> limits.balance_checks
      [] name = "global_rpm" -> limits.global_rpm
      [] name = "global_rph" -> limits.global_rph

\* no thread is calling the limiter, no request has been sent
NoCallers == << >>
NoSent == {}

RateLimiterInit == [n \in WindowNames |-> << >>]

\* deque(maxlen = m).append(x)
DequeAppend(w, x, m) ==
    IF m = 0 THEN w
    ELSE IF Len(w) >= m THEN Append(Tail(w), x)
    ELSE Append(w, x)

RECURSIVE _clean_window(_, _, _)
_clean_window(window, t, duration) ==
    IF window # << >> /\ window[1] < t - duration
    THEN _clean_window(Tail(window), t, duration)
    ELSE window

\* variant: the wait of a full window has no slack added
WaitFor_no_slack(window, t, duration, slack) ==
    Max(0, duration - (t - window[1]))

\* max(0, duration - (now - window[0]) + slack), slack being 0.1 s or 1 s
WaitFor(window, t, duration, slack) ==
    Max(0, duration - (t - window[1]) + slack)

\* the window an endpoint name is classified into
Classify(endpoint) ==
    IF "trade" \in endpoint THEN "trade"
    ELSE IF "price" \in endpoint THEN "price"
    ELSE IF "balance" \in endpoint \/ "portfolio" \in endpoint THEN "balance"
    ELSE "global_rpm"

\* variant: the category test lets the window overfill by one
acquire_category_off_by_one(ws, t, endpoint) ==
    LET name == Classify(endpoint)
        limit == Limit(name)
        duration == 600
        w1 == [ws EXCEPT ![name] = _clean_window(ws[name], t, duration)]
        w2 == [w1 EXCEPT !["global_rpm"] = _clean_window(w1["global_rpm"], t, 600)]
        w3 == [w2 EXCEPT !["global_rph"] = _clean_window(w2["global_rph"], t, 36000)]
    IN  IF Len(w2["global_rpm"]) >= Limit("global_rpm")
        THEN [w |-> w2, ok |-> FALSE,
              wait |-> WaitFor(w2["global_rpm"], t, 600, 1)]
        ELSE IF Len(w3["global_rph"]) >= Limit("global_rph")
        THEN [w |-> w3, ok |-> FALSE,
              wait |-> WaitFor(w3["global_rph"], t, 36000, 10)]
        ELSE IF Len(w3[name]) > limit
        THEN [w |-> w3, ok |-> FALSE,
              wait |-> WaitFor(w3[name], t, duration, 1)]
        ELSE
          LET w4 == [w3 EXCEPT ![name] = DequeAppend(w3[name], t, Limit(name))]
              w5 == [w4 EXCEPT !["global_rpm"] =
                         DequeAppend(w4["global_rpm"], t, Limit("global_rpm"))]
              w6 == [w5 EXCEPT !["global_rph"] =
                         DequeAppend(w5["global_rph"], t, Limit("global_rph"))]
          IN  [w |-> w6, ok |-> TRUE, wait |-> 0]

\* variant: the category test is made against the window as it was before the
\* latest append, as a thread that read the window outside the lock would see it
acquire_stale_capacity(ws, t, endpoint) ==
    LET name == Classify(endpoint)
        limit == Limit(name)
        duration == 600
        w1 == [ws EXCEPT ![name] = _clean_window(ws[name], t, duration)]
        w2 == [w1 EXCEPT !["global_rpm"] = _clean_window(w1["global_rpm"], t, 600)]
        w3 == [w2 EXCEPT !["global_rph"] = _clean_window(w2["global_rph"], t, 36000)]
    IN  IF Len(w2["global_rpm"]) >= Limit("global_rpm")
        THEN [w |-> w2, ok |-> FALSE,
              wait |-> WaitFor(w2["global_rpm"], t, 600, 1)]
        ELSE IF Len(w3["global_rph"]) >= Limit("global_rph")
        THEN [w |-> w3, ok |-> FALSE,
              wait |-> WaitFor(w3["global_rph"], t, 36000, 10)]
        ELSE IF Len(w3[name]) - 1 >= limit
        THEN [w |-> w3, ok |-> FALSE,
              wait |-> WaitFor(w3[name], t, duration, 1)]
        ELSE
          LET w4 == [w3 EXCEPT ![name] = DequeAppend(w3[name], t, Limit(name))]
              w5 == [w4 EXCEPT !["global_rpm"] =
                         DequeAppend(w4["global_rpm"], t, Limit("global_rpm"))]
              w6 == [w5 EXCEPT !["global_rph"] =
                         DequeAppend(w5["global_rph"], t, Limit("global_rph"))]
          IN  [w |-> w6, ok |-> TRUE, wait |-> 0]

acquire(ws, t, endpoint) ==
    LET name == Classify(endpoint)
        limit == Limit(name)
        duration == 600
        w1 == [ws EXCEPT ![name] = _clean_window(ws[name], t, duration)]
        w2 == [w1 EXCEPT !["global_rpm"] = _clean_window(w1["global_rpm"], t, 600)]
        w3 == [w2 EXCEPT !["global_rph"] = _clean_window(w2["global_rph"], t, 36000)]
    IN  IF Len(w2["global_rpm"]) >= Limit("global_rpm")
        THEN [w |-> w2, ok |-> FALSE,
              wait |-> WaitFor(w2["global_rpm"], t, 600, 1)]
        ELSE IF Len(w3["global_rph"]) >= Limit("global_rph")
        THEN [w |-> w3, ok |-> FALSE,
              wait |-> WaitFor(w3["global_rph"], t, 36000, 10)]
        ELSE IF Len(w3[name]) >= limit
        THEN [w |-> w3, ok |-> FALSE,
              wait |-> WaitFor(w3[name], t, duration, 1)]
        ELSE
          LET w4 == [w3 EXCEPT ![name] = DequeAppend(w3[name], t, Limit(name))]
              w5 == [w4 EXCEPT !["global_rpm"] =
                         DequeAppend(w4["global_rpm"], t, Limit("global_rpm"))]
              w6 == [w5 EXCEPT !["global_rph"] =
                         DequeAppend(w5["global_rph"], t, Limit("global_rph"))]
          IN  [w |-> w6, ok |-> TRUE, wait |-> 0]

NoAcq == [name |-> "none", ok |-> TRUE, wait |-> 0]
NoHist == {}

\* number of slots of window `name` granted at time t, from the log
Granted(g, t, name) ==
    IF \E e \in g : e.t = t /\ e.name = name
    THEN (CHOOSE e \in g : e.t = t /\ e.name = name).n
    ELSE 0

\* the log after one more grant of `name` at time t
LogGrant(g, t, name) ==
    {e \in g : ~(e.t = t /\ e.name = name)}
      \cup {[t |-> t, name |-> name, n |-> Granted(g, t, name) + 1]}

(***************************************************************************)
(* Exact rational arithmetic for weights and money: [n, d] with d > 0, in  *)
(* lowest terms                                                            *)
(***************************************************************************)
Abs(x) == IF x < 0 THEN -x ELSE x

\* the arguments are evaluated once, where the function is applied
gcd[a \in Nat, b \in Nat] == IF b = 0 THEN a ELSE gcd[b, a % b]

GCD(a, b) == gcd[a, b]

lowest[n \in Int, d \in Int] ==
    LET g == gcd[Abs(n), Abs(d)]
        sg == IF d < 0 THEN -1 ELSE 1
    IN  [n |-> (sg * n) \div g, d |-> (sg * d) \div g]

Q(n, d) == lowest[n, d]

QInt(i) == [n |-> i, d |-> 1]
Rat == [n : Int, d : Int]

qadd[a \in Rat, b \in Rat] == Q(a.n * b.d + b.n * a.d, a.d * b.d)
qsub[a \in Rat, b \in Rat] == Q(a.n * b.d - b.n * a.d, a.d * b.d)
qmul[a \in Rat, b \in Rat] == Q(a.n * b.n, a.d * b.d)
qdiv[a \in Rat, b \in Rat] == Q(a.n * b.d, a.d * b.n)
qlt[a \in Rat, b \in Rat] == a.n * b.d < b.n * a.d
qle[a \in Rat, b \in Rat] == a.n * b.d <= b.n * a.d

QAdd(a, b) == qadd[a, b]
QSub(a, b) == qsub[a, b]
QMul(a, b) == qmul[a, b]
QDiv(a, b) == qdiv[a, b]
QLt(a, b) == qlt[a, b]
QLe(a, b) == qle[a, b]
QMin(a, b) == IF QLe(a, b) THEN a ELSE b
QMax(a, b) == IF QLe(b, a) THEN a ELSE b

(***************************************************************************)
(* Configuration read by run()                                             *)
(***************************************************************************)
\* the strategy section of the configuration the loop is checked with
DefaultStrategy ==
    [look_s |-> 1, look_l |-> 2, vol_look |-> 2,
     z_entry |-> Q(12, 10), z_exit |-> Q(3, 10)]

look_s == strat.look_s
look_l == strat.look_l
vol_look == strat.vol_look
z_entry == strat.z_entry
z_exit == strat.z_exit
min_mom == Q(5, 1000)
bar_sec == 450
rebalance_every == 450
target_cash_frac == Q(15, 100)
max_assets == 2
log_every == 3000
per_trade_base_usd == 100
max_single_trade_pct == Q(25, 100)
max_exposure_per_asset_pct == Q(35, 100)
min_ready == Min(look_l, vol_look)
PriceSeriesMaxlen == Max(look_l, vol_look) + 20

(***************************************************************************)
(* Tokens and the discovered universe                                      *)
(***************************************************************************)
Token(sym, sp, addr) ==
    [symbol |-> sym, address |-> addr, chain |-> "evm", specific |-> sp]

\* f"{sym}_{sp}"
KeyOf(sym, sp) ==
    CASE sym = "USDC" /\ sp = "eth" -> "USDC_eth"
      [] sym = "USDC" /\ sp = "base" -> "USDC_base"
      [] sym = "AAA" /\ sp = "eth" -> "AAA_eth"
      [] sym = "AAA" /\ sp = "base" -> "AAA_base"
      [] sym = "BBB" /\ sp = "eth" -> "BBB_eth"
      [] sym = "BBB" /\ sp = "base" -> "BBB_base"
      [] sym = "CCC" /\ sp = "eth" -> "CCC_eth"

\* A universe is the sequence of its tokens in insertion order; the key of a
\* token is KeyOf(symbol, specific).
Universes ==
    { << Token("USDC", "eth", "0xusdc"), Token("AAA", "eth", "0xaaa"),
         Token("BBB", "eth", "0xbbb") >>,
      << Token("USDC", "eth", "0xusdc"), Token("AAA", "eth", "0xaaa"),
         Token("BBB", "base", "0xbbb") >> }

TokKey(tok) == KeyOf(tok.symbol, tok.specific)
Keys(u) == {TokKey(u[i]) : i \in DOMAIN u}
KeySeq(u) == [i \in DOMAIN u |-> TokKey(u[i])]
TokOf(u, key) == u[CHOOSE i \in DOMAIN u : TokKey(u[i]) = key]

(***************************************************************************)
(* PriceSeries, the signal and the allocator                               *)
(***************************************************************************)
RECURSIVE SeqSum(_)
SeqSum(arr) == IF arr = << >> THEN 0 ELSE arr[1] + SeqSum(Tail(arr))

\* arr[-n:]
LastN(arr, n) ==
    IF Len(arr) <= n THEN arr ELSE SubSeq(arr, Len(arr) - n + 1, Len(arr))

\* np.mean
Mean(arr) == Q(SeqSum(arr), Len(arr))

\* np.std, exact where it is rational: 0 for a window of equal prices,
\* |a - b| / 2 for a window of two prices
Std(w) ==
    CASE \A i \in DOMAIN w : w[i] = w[1] -> QInt(0)
      [] Len(w) = 2 /\ w[1] # w[2] -> Q(Abs(w[1] - w[2]), 2)

ready(values, n) == Len(values) >= n

_z(arr) ==
    IF Len(arr) < Max(look_l, vol_look) THEN QInt(0)
    ELSE LET m_s == Mean(LastN(arr, look_s))
             m_l == Mean(LastN(arr, look_l))
             spread == QSub(m_s, m_l)
             vol == Std(LastN(arr, vol_look))
         IN  IF vol.n = 0 THEN QInt(0) ELSE QDiv(spread, vol)

decide_weight(arr) ==
    LET z == _z(arr)
    IN  IF QLe(z, z_exit) THEN QInt(0)
        ELSE IF QLe(z_entry, z)
        THEN QMin(QInt(1),
                  QAdd(QDiv(QSub(z, z_entry), QMax(z_entry, Q(1, 1000000))),
                       Q(1, 2)))
        ELSE QMax(QInt(0),
                  QMul(QDiv(QSub(z, z_exit),
                            QMax(QSub(z_entry, z_exit), Q(1, 1000000))),
                       Q(3, 10)))

\* np.mean(arr[-look_s:]) / np.mean(arr[-look_l:]) - 1.0
Momentum(arr) ==
    QSub(QDiv(Mean(LastN(arr, look_s)), Mean(LastN(arr, look_l))), QInt(1))

\* realized_vol: 0.0 for fewer than 3 prices, which is every slice
\* arr[-vol_look:] with vol_look = 2; a longer slice has the floor 1e-8 as
\* its least value
realized_vol(prices) ==
    IF Len(prices) < 3 THEN QInt(0) ELSE Q(1, 100000000)

\* signals of one cycle: the ready keys with mom > min_mom and weight > 0,
\* in the order of price_series
RECURSIVE SignalsOf(_, _)
SignalsOf(keys, ps) ==
    IF keys = << >> THEN << >>
    ELSE LET key == Head(keys)
             arr == ps[key]
             rest == SignalsOf(Tail(keys), ps)
         IN  IF ~ready(arr, min_ready) THEN rest
             ELSE LET weight == decide_weight(arr)
                      mom == Momentum(arr)
                      vol == realized_vol(LastN(arr, vol_look))
                  IN  IF QLt(min_mom, mom) /\ QLt(QInt(0), weight)
                      THEN << [key |-> key, weight |-> weight, momentum |-> mom,
                               volatility |-> vol, price |-> arr[Len(arr)],
                               final_weight |-> QInt(0)] >> \o rest
                      ELSE rest

RECURSIVE QSum(_)
QSum(qs) == IF qs = << >> THEN QInt(0) ELSE QAdd(Head(qs), QSum(Tail(qs)))

\* variant: the volatility is not floored at 1e-8
risk_parity_weights_no_floor(vols) ==
    LET inv == [i \in DOMAIN vols |-> QDiv(QInt(1), vols[i])]
        s0 == QSum(inv)
        s == IF s0.n = 0 THEN QInt(1) ELSE s0
    IN  [i \in DOMAIN vols |-> QMax(QInt(0), QDiv(inv[i], s))]

\* risk_parity_weights(vols, long_only = True), one weight per entry of vols
risk_parity_weights(vols) ==
    LET inv == [i \in DOMAIN vols |-> QDiv(QInt(1), QMax(vols[i], Q(1, 100000000)))]
        s0 == QSum(inv)
        s == IF s0.n = 0 THEN QInt(1) ELSE s0
    IN  [i \in DOMAIN vols |-> QMax(QInt(0), QDiv(inv[i], s))]

\* variant: the final weights are not divided by their total
WithFinalWeights_unnormalised(signals) ==
    IF signals = << >> THEN signals
    ELSE LET rp == risk_parity_weights([i \in DOMAIN signals |-> signals[i].volatility])
         IN  [i \in DOMAIN signals |->
                [signals[i] EXCEPT !.final_weight = QMul(signals[i].weight, rp[i])]]

\* run(): final_weight = weight * rp_weight, divided by their total if > 0
WithFinalWeights(signals) ==
    IF signals = << >> THEN signals
    ELSE LET rp == risk_parity_weights([i \in DOMAIN signals |-> signals[i].volatility])
             fw == [i \in DOMAIN signals |-> QMul(signals[i].weight, rp[i])]
             total_w == QSum(fw)
         IN  [i \in DOMAIN signals |->
                [signals[i] EXCEPT !.final_weight =
                    IF QLt(QInt(0), total_w) THEN QDiv(fw[i], total_w) ELSE fw[i]]]

\* sorted(signals.items(), key = final_weight, reverse = True): stable
RECURSIVE InsertDesc(_, _)
InsertDesc(x, sorted) ==
    IF sorted = << >> THEN << x >>
    ELSE IF QLt(Head(sorted).final_weight, x.final_weight)
    THEN << x >> \o sorted
    ELSE << Head(sorted) >> \o InsertDesc(x, Tail(sorted))

RECURSIVE SortDesc(_)
SortDesc(signals) ==
    IF signals = << >> THEN << >>
    ELSE InsertDesc(signals[Len(signals)],
                    SortDesc(SubSeq(signals, 1, Len(signals) - 1)))

HasSignal(signals, key) == \E i \in DOMAIN signals : signals[i].key = key

(***************************************************************************)
(* Balances and mark-to-market                                             *)
(***************************************************************************)
BalEntry(sym, qty, addr, sp) ==
    [symbol |-> sym, amount |-> qty, tokenAddress |-> addr,
     chain |-> "evm", specificChain |-> sp]

\* the answers of rc.balances() the model draws from
BalanceVals ==
    { << BalEntry("USDC", 1000, "0xusdc", "eth") >>,
      << BalEntry("USDC", 780, "0xusdc", "eth"), BalEntry("AAA", 2, "0xaaa", "eth") >> }

\* a universe of USDC and one asset, and the answers of rc.balances() for an
\* account trading it: all in USDC, or the asset held beyond its target
PairUniverse ==
    << Token("USDC", "eth", "0xusdc"), Token("AAA", "eth", "0xaaa") >>

HeldBalanceVals ==
    { << BalEntry("USDC", 1000, "0xusdc", "eth") >>,
      << BalEntry("USDC", 100, "0xusdc", "eth"), BalEntry("AAA", 9, "0xaaa", "eth") >> }

\* a universe of USDC and three assets, more assets than max_assets, and the
\* answers of rc.balances() for an account trading it: all in USDC, a small
\* account, one asset held near its exposure ceiling, one asset held near
\* its target
WideUniverse ==
    << Token("USDC", "eth", "0xusdc"), Token("AAA", "eth", "0xaaa"),
       Token("BBB", "eth", "0xbbb"), Token("CCC", "eth", "0xccc") >>

WideBalanceVals ==
    { << BalEntry("USDC", 1000, "0xusdc", "eth") >>,
      << BalEntry("USDC", 300, "0xusdc", "eth") >>,
      << BalEntry("USDC", 700, "0xusdc", "eth"), BalEntry("AAA", 3, "0xaaa", "eth") >>,
      << BalEntry("USDC", 800, "0xusdc", "eth"), BalEntry("AAA", 2, "0xaaa", "eth") >> }

BalancesOf(u) ==
    CASE u = PairUniverse -> HeldBalanceVals
      [] u = WideUniverse -> WideBalanceVals
      [] OTHER -> BalanceVals

RECURSIVE get_token_balance(_, _, _, _)
get_token_balance(bals, symbol, chain, specific) ==
    IF bals = << >> THEN 0
    ELSE LET b == Head(bals)
         IN  IF b.symbol = symbol /\ b.chain = chain /\ b.specificChain = specific
             THEN b.amount
             ELSE get_token_balance(Tail(bals), symbol, chain, specific)

\* mark_to_market_usd: px is the venue's price per address, failed the set of
\* addresses whose price lookup raised (valued at 0.0)
RECURSIVE mark_to_market_usd(_, _, _)
mark_to_market_usd(bals, px, failed) ==
    IF bals = << >> THEN [total |-> 0, exposures |-> [k \in {} |-> 0]]
    ELSE LET b == bals[Len(bals)]
             before == mark_to_market_usd(SubSeq(bals, 1, Len(bals) - 1), px, failed)
             key == KeyOf(b.symbol, b.specificChain)
             old == IF key \in DOMAIN before.exposures THEN before.exposures[key] ELSE 0
             usd_val == IF b.symbol = "USDC" THEN b.amount
                        ELSE IF b.tokenAddress \in failed THEN 0
                        ELSE b.amount * px[b.tokenAddress]
         IN  IF b.amount <= 0 \/ (b.symbol # "USDC" /\ b.tokenAddress = "")
             THEN before
             ELSE [total |-> before.total + usd_val,
                   exposures |-> [k \in DOMAIN before.exposures \cup {key} |->
                                     IF k = key THEN old + usd_val
                                     ELSE before.exposures[k]]]

\* the address of USDC on the chain sp, "" when the universe has none
RECURSIVE UsdcAddr(_, _)
UsdcAddr(u, sp) ==
    IF u = << >> THEN ""
    ELSE IF Head(u).symbol = "USDC" /\ Head(u).specific = sp THEN Head(u).address
    ELSE UsdcAddr(Tail(u), sp)

(***************************************************************************)
(* State of the control loop before its first cycle                        *)
(***************************************************************************)
\* orders: the orders of the cycle handed to the executor so far, each with
\* whether it returned and whether mark_trade was called for it; risk0 and
\* ps0: the risk state and the price series the cycle began with
NoCycle ==
    [now |-> 0, px |-> << >>, signals |-> << >>, bals |-> << >>, equity |-> 0,
     exposures |-> << >>, ok |-> "none", todo |-> << >>, orders |-> << >>,
     risk0 |-> RiskManagerInit(StartNow), ps0 |-> << >>]

NoOrder ==
    [kind |-> "none", key |-> "", sell |-> "", buy |-> "", usd |-> QInt(0),
     t |-> 0, res |-> "", allowed |-> FALSE, stopped |-> FALSE,
     capped |-> FALSE, cooling |-> FALSE]

NoSignal == [arr |-> << >>, z |-> QInt(0), weight |-> QInt(0), done |-> FALSE]

LoopStart(u) ==
    /\ universe = u
    /\ strat = DefaultStrategy
    /\ sig = NoSignal
    /\ pc = "poll"
    /\ cycles = 0
    /\ faults = 0
    /\ price_series = [k \in Keys(u) |-> << >>]
    /\ last_rebalance = 0
    /\ last_log = 0
    /\ eq_series = << >>
    /\ c = NoCycle
    /\ last_order = NoOrder

\* the control loop is not running
LoopIdle ==
    /\ universe = << >>
    /\ strat = DefaultStrategy
    /\ sig = NoSignal
    /\ pc = "idle"
    /\ cycles = 0
    /\ faults = 0
    /\ price_series = << >>
    /\ last_rebalance = 0
    /\ last_log = 0
    /\ eq_series = << >>
    /\ c = NoCycle
    /\ last_order = NoOrder

(***************************************************************************)
(* The risk manager driven by an arbitrary caller under an advancing clock *)
(***************************************************************************)
NoRet == [op |-> "none", ok |-> TRUE, why |-> "", equity |-> 0, val |-> 0]

InitRisk ==
    /\ now = StartNow
    /\ risk = RiskManagerInit(StartNow)
    /\ ret = NoRet
    /\ ticks = 0
    /\ marks = 0
    /\ windows = RateLimiterInit
    /\ acq = NoAcq
    /\ hist = NoHist
    /\ limits = Limits
    /\ callers = NoCallers
    /\ sent = NoSent
    /\ LoopIdle

Tick(d) ==
    /\ ticks < MaxTicks
    /\ now' = now + d
    /\ ticks' = ticks + 1
    /\ UNCHANGED <<risk, ret, marks, rlVars, loopVars>>

MarkTrade ==
    /\ marks < MaxMarks
    /\ risk' = mark_trade(risk, now)
    /\ marks' = marks + 1
    /\ ret' = [NoRet EXCEPT !.op = "mark_trade"]
    /\ UNCHANGED <<now, ticks, rlVars, loopVars>>

GetDailyTradeCount ==
    LET res == get_daily_trade_count(risk, now)
    IN  /\ risk' = res.r
        /\ ret' = [NoRet EXCEPT !.op = "get_daily_trade_count", !.val = res.val]
        /\ UNCHANGED <<now, ticks, marks, rlVars, loopVars>>

NeedsMoreTrades ==
    LET res == needs_more_trades(risk, now)
    IN  /\ risk' = res.r
        /\ ret' = [NoRet EXCEPT !.op = "needs_more_trades", !.ok = res.val]
        /\ UNCHANGED <<now, ticks, marks, rlVars, loopVars>>

CheckPretrade(e) ==
    LET res == check_pretrade(risk, now, e)
    IN  /\ risk' = res.r
        /\ ret' = [NoRet EXCEPT !.op = "check_pretrade", !.ok = res.ok,
                                !.why = res.why, !.equity = e]
        /\ UNCHANGED <<now, ticks, marks, rlVars, loopVars>>

NextRisk ==
    \/ \E d \in TickSteps : Tick(d)
    \/ MarkTrade
    \/ GetDailyTradeCount
    \/ NeedsMoreTrades
    \/ \E e \in EquityVals : CheckPretrade(e)

SpecRisk == InitRisk /\ [][NextRisk]_vars

(***************************************************************************)
(* Properties of the risk manager                                          *)
(***************************************************************************)
IsCheckPretrade == \E e \in EquityVals : CheckPretrade(e)

\* C1: STOPPED is absorbing.  Once the stop flag is set no step of the risk
\* manager clears it, and every check_pretrade made while it is set returns
\* allowed = false, whatever the equity and whatever the UTC day.
C1_StoppedAbsorbing ==
    [][ risk.stopped =>
          /\ risk'.stopped
          /\ (IsCheckPretrade => ~ret'.ok) ]_vars

\* C1 witness: the manager is stopped, a day rollover has been observed since
\* the start, and the last check_pretrade was refused although its equity was
\* above the recorded peak.
C1_Witness ==
    /\ risk.stopped
    /\ risk.day_start > Day(StartNow)
    /\ ret.op = "check_pretrade"
    /\ ~ret.ok
    /\ ret.why = "Drawdown stop active"
    /\ ret.equity > risk.equity_peak

\* C2: a check_pretrade made while ACTIVE stops the manager exactly when the
\* drawdown (peak - equity) / peak against the peak that includes the current
\* equity is at least max_drawdown_stop (the ratio being defined for a
\* positive peak); that call returns (false, "Drawdown ..."); no other
\* operation sets the stop flag.
C2_StopTransition ==
    [][ /\ \A e \in EquityVals :
             (CheckPretrade(e) /\ ~risk.stopped) =>
               LET pk == IF risk.equity_peak = None THEN e
                         ELSE Max(risk.equity_peak, e)
               IN  /\ risk'.stopped <=>
                        /\ pk > 0
                        /\ (pk - e) * max_drawdown_stop_den
                              >= max_drawdown_stop_num * pk
                   /\ risk'.stopped => (~ret'.ok /\ ret'.why = "Drawdown")
        /\ (~risk.stopped /\ risk'.stopped) => IsCheckPretrade ]_vars

\* C2 witness: peak 1000, equity 799, threshold 20%: the call has stopped the
\* manager with the drawdown reason.
C2_Witness ==
    /\ risk.stopped
    /\ risk.equity_peak = 1000
    /\ ret.op = "check_pretrade"
    /\ ret.equity = 799
    /\ ret.why = "Drawdown"
    /\ ~ret.ok

\* C5 (as stated): the daily count never decreases except by a reset to 0,
\* and every reset answers exactly one UTC-day boundary crossing.
C5_ResetOncePerCrossing ==
    [][ /\ risk'.daily_count < risk.daily_count => risk'.daily_count = 0
        /\ risk'.day_start # risk.day_start => Day(now) = risk.day_start + 1 ]_vars

IsRolloverCall ==
    \/ GetDailyTradeCount
    \/ NeedsMoreTrades
    \/ (IsCheckPretrade /\ ~risk.stopped)

\* C5 (amended): while the day marker is unchanged the daily count never
\* decreases; the marker changes only in get_daily_trade_count,
\* needs_more_trades or a check_pretrade made while ACTIVE, only when the
\* clock's UTC day differs from the marker, and that step sets the count to 0
\* and the marker to the clock's day; each such call leaves the marker equal
\* to the clock's day, so one reset answers all the boundaries crossed since
\* the previous call.
C5_LazyReset ==
    [][ /\ risk'.day_start = risk.day_start =>
              risk'.daily_count >= risk.daily_count
        /\ risk'.day_start # risk.day_start =>
              /\ IsRolloverCall
              /\ Day(now) # risk.day_start
              /\ risk'.daily_count = 0
              /\ risk'.daily_trade_times = << >>
        /\ IsRolloverCall => risk'.day_start = Day(now') ]_vars

\* C5 witness: trades were recorded and a later rollover has reset the count.
C5_Witness ==
    /\ marks > 0
    /\ risk.day_start > Day(StartNow)
    /\ risk.daily_count = 0
    /\ risk.last_trade_ts > 0
    /\ ret.op = "get_daily_trade_count"
    /\ ret.val = 0

\* The reason the claimed order of checks gives for check_pretrade(e)
ReasonInOrder(e) ==
    LET count == IF Day(now) # risk.day_start THEN 0 ELSE risk.daily_count
        pk == IF risk.equity_peak = None THEN e ELSE Max(risk.equity_peak, e)
        ddFails == /\ risk.equity_peak # None
                   /\ pk > 0
                   /\ (pk - e) * max_drawdown_stop_den >= max_drawdown_stop_num * pk
        capFails == count >= max_daily_trades
        coolFails == now - risk.last_trade_ts < cooldown_seconds
    IN  CASE risk.stopped -> "Drawdown stop active"
          [] ~risk.stopped /\ ddFails -> "Drawdown"
          [] ~risk.stopped /\ ~ddFails /\ capFails -> "Daily cap"
          [] ~risk.stopped /\ ~ddFails /\ ~capFails /\ coolFails -> "Cooldown"
          [] OTHER -> "OK"

\* C7: check_pretrade reports the first failing condition in the order
\* stop-state, drawdown, daily cap, cooldown, the daily cap being tested on
\* the count after the day-rollover reset; it allows the trade only when no
\* condition fails.
C7_ReasonOrder ==
    [][ \A e \in EquityVals :
          CheckPretrade(e) =>
            /\ ret'.why = ReasonInOrder(e)
            /\ ret'.ok <=> (ReasonInOrder(e) = "OK") ]_vars

\* C7 witness: the drawdown, the daily cap and the cooldown fail in the same
\* call and the drawdown reason is the one reported.
C7_Witness ==
    /\ ret.op = "check_pretrade"
    /\ ret.why = "Drawdown"
    /\ risk.daily_count >= max_daily_trades
    /\ risk.day_start = Day(now)
    /\ now - risk.last_trade_ts < cooldown_seconds

\* the recorded trade times that lie in the UTC day of t
MarksOfDay(times, t) == Cardinality({i \in DOMAIN times : Day(times[i]) = Day(t)})

\* C27: get_daily_trade_count returns the number of trades recorded during
\* the current UTC day; a trade recorded after the day boundary and before
\* the first read that rolls the day over is counted for the new day.
C27_CountsCurrentDay ==
    [][ GetDailyTradeCount =>
            ret'.val = MarksOfDay(risk.daily_trade_times, now) ]_vars

\* C21: once check_pretrade has set the peak equity, no operation and no day
\* rollover lowers or unsets it, and after every check_pretrade made while
\* not stopped the peak is at least the equity passed to that call.
C21_PeakMonotone ==
    [][ /\ risk.equity_peak # None =>
              /\ risk'.equity_peak # None
              /\ risk'.equity_peak >= risk.equity_peak
        /\ (IsCheckPretrade /\ ~risk.stopped) =>
              /\ risk'.equity_peak # None
              /\ risk'.equity_peak >= ret'.equity
      ]_vars

\* a check_pretrade with an equity below the peak has left the peak where it
\* was, on a later day than the one the manager was created on
C21_Witness ==
    /\ ret.op = "check_pretrade"
    /\ ret.equity = 801
    /\ risk.equity_peak = 1000
    /\ ~risk.stopped
    /\ risk.day_start > Day(StartNow)

(***************************************************************************)
(* The rate limiter driven by an arbitrary caller under an advancing clock *)
(***************************************************************************)
MaxTicksRL == 3
TickStepsRL == {1, 600, 36000}

InitRL ==
    /\ now = StartNow
    /\ ticks = 0
    /\ risk = RiskManagerInit(StartNow)
    /\ ret = NoRet
    /\ marks = 0
    /\ windows = RateLimiterInit
    /\ acq = NoAcq
    /\ hist = NoHist
    /\ limits = Limits
    /\ callers = NoCallers
    /\ sent = NoSent
    /\ LoopIdle

RECURSIVE SumN(_)
SumN(g) ==
    IF g = {} THEN 0
    ELSE LET e == CHOOSE x \in g : TRUE IN e.n + SumN(g \ {e})

\* The log at time t: the grants of the last minute by window name, the
\* older grants of the last hour by time only, nothing older.
Recent(g, t) ==
    LET minute == {e \in g : e.t >= t - 600}
        hour == {e \in g : e.t >= t - 36000 /\ e.t < t - 600}
        times == {e.t : e \in hour}
    IN  minute \cup
        {[t |-> u, name |-> "any", n |-> SumN({e \in hour : e.t = u})] : u \in times}

TickRL(d) ==
    /\ ticks < MaxTicksRL
    /\ now' = now + d
    /\ ticks' = ticks + 1
    /\ hist' = Recent(hist, now')
    /\ acq' = NoAcq
    /\ UNCHANGED <<riskVars, windows, limits, callers, sent, loopVars>>

Acquire(endpoint) ==
    LET res == acquire(windows, now, endpoint)
    IN  /\ windows' = res.w
        /\ acq' = [name |-> Classify(endpoint), ok |-> res.ok, wait |-> res.wait]
        /\ hist' = IF res.ok THEN LogGrant(hist, now, Classify(endpoint)) ELSE hist
        /\ UNCHANGED <<now, ticks, riskVars, limits, callers, sent, loopVars>>

NextRL ==
    \/ \E d \in TickStepsRL : TickRL(d)
    \/ \E ep \in Endpoints : Acquire(ep)

SpecRL == InitRL /\ [][NextRL]_vars

(***************************************************************************)
(* Properties of the rate limiter                                          *)
(***************************************************************************)
Categories == {"trade", "price", "balance"}

\* slots of window `name` granted in the closed trailing interval of length d
GrantsOf(name, d) == SumN({e \in hist : e.name = name /\ e.t >= now - d})

\* all slots granted in the closed trailing interval of length d
GrantsAll(d) == SumN({e \in hist : e.t >= now - d})

\* the global windows have spare capacity at the present instant
GlobalSpare ==
    /\ Len(_clean_window(windows["global_rpm"], now, 600)) < global_rpm
    /\ Len(_clean_window(windows["global_rph"], now, 36000)) < global_rph

\* C8: for a category with quota Q per 60 s, an acquire made when Q slots of
\* the category were granted in the trailing 60 s is denied, every denial
\* carries a strictly positive wait, and, the global windows having spare
\* capacity, an acquire is denied only if Q slots of the category were
\* granted in the trailing 60 s: once more than 60 s have passed since the
\* oldest of them, the category is granted again.
C8_QuotaThenRecovery ==
    acq.name \in Categories =>
        /\ acq.ok => GrantsOf(acq.name, 600) <= Limit(acq.name)
        /\ ~acq.ok => acq.wait > 0
        /\ (~acq.ok /\ GlobalSpare) => GrantsOf(acq.name, 600) >= Limit(acq.name)

\* C8 witness: the trade quota of 2 was used up exactly 60 s ago; the call
\* made now is still inside the window and is denied with the wait 0.1 s,
\* the global windows having spare capacity.
C8_Witness ==
    /\ acq.name = "trade"
    /\ ~acq.ok
    /\ acq.wait = 1
    /\ GlobalSpare
    /\ GrantsOf("trade", 600) = trade_operations
    /\ GrantsOf("trade", 599) = 0

\* C9: in every reachable state the slots granted to a category in the
\* trailing 60 s are at most its quota, all slots granted in the trailing
\* 60 s are at most global_rpm and all slots granted in the trailing 3600 s
\* are at most global_rph; so a slot is granted only when the category, the
\* per-minute and the per-hour window each had room for it.
C9_TrailingWindowsBounded ==
    /\ \A cat \in Categories : GrantsOf(cat, 600) <= Limit(cat)
    /\ GrantsAll(600) <= global_rpm
    /\ GrantsAll(36000) <= global_rph

\* C9 witness: the trade quota, the per-minute quota and the per-hour quota
\* are all used up and the last acquire was denied.
C9_Witness ==
    /\ GrantsOf("trade", 600) = trade_operations
    /\ GrantsAll(600) = global_rpm
    /\ GrantsAll(36000) = global_rph
    /\ acq.name = "trade"
    /\ ~acq.ok

\* the wait a window asks for when it is full at the present instant
FullWait(name, duration, slack) ==
    LET w == _clean_window(windows[name], now, duration)
    IN  IF Len(w) >= Limit(name) THEN duration - (now - w[1]) + slack ELSE 0

\* C10: the wait returned by a denied acquire is the largest of the waits of
\* the windows that are full (category, per-minute, per-hour).
C10_MostRestrictiveWait ==
    (acq.name # "none" /\ ~acq.ok) =>
        /\ acq.wait >= FullWait(acq.name, 600, 1)
        /\ acq.wait >= FullWait("global_rpm", 600, 1)
        /\ acq.wait >= FullWait("global_rph", 36000, 10)

\* the length of the trailing interval of a window
DurationOf(name) == IF name = "global_rph" THEN 36000 ELSE 600

\* the timestamps a step has added to a window, over what the purge of the
\* call leaves of it
Recorded(name) ==
    Len(windows'[name]) - Len(_clean_window(windows[name], now, DurationOf(name)))

\* C29: a granted acquire records exactly one timestamp in the window of its
\* category, one in the per-minute window and one in the per-hour window,
\* whatever the endpoint name, and none elsewhere; a denied acquire records
\* no timestamp in any window.
C29_OneRequestPerGrant ==
    [][ \A ep \in Endpoints :
          Acquire(ep) =>
            IF acq'.ok
            THEN \A name \in WindowNames :
                   IF name \in {Classify(ep), "global_rpm", "global_rph"}
                   THEN Recorded(name) = 1
                   ELSE windows'[name] = windows[name]
            ELSE \A name \in WindowNames :
                   \/ windows'[name] = windows[name]
                   \/ windows'[name] = _clean_window(windows[name], now, DurationOf(name))
      ]_vars

(***************************************************************************)
(* The control loop run(), with the venue as its environment               *)
(***************************************************************************)
MaxCycles == 3
MaxFaults == 1

\* prices the venue quotes for a token other than USDC, and for USDC
PriceVals == {100, 110}
UsdcPrice == 1
\* time one order submission takes, retries included
NetSteps == {10}

Addrs(u) == {u[i].address : i \in DOMAIN u}

VenuePrices(u) ==
    { px \in [Addrs(u) -> PriceVals \cup {UsdcPrice}] :
        \A i \in DOMAIN u : (u[i].symbol = "USDC") <=> (px[u[i].address] = UsdcPrice) }

\* variant: the trade is recorded whether or not the submission raised
after_submit_always_marks(r, t, res) == mark_trade(r, t)

\* try: res = ex.sell_all(...) / ex.trade_usd_notional(...); risk.mark_trade()
\* except Exception: LOG.error(...)
after_submit(r, t, res) == IF res = "ok" THEN mark_trade(r, t) ELSE r

check_trade_size(trade_usd, total_portfolio_usd) ==
    IF total_portfolio_usd <= 0 THEN FALSE
    ELSE ~QLt(max_single_trade_pct, QDiv(trade_usd, QInt(total_portfolio_usd)))

check_asset_exposure(asset_exposure_usd, total_portfolio_usd) ==
    IF total_portfolio_usd <= 0 THEN TRUE
    ELSE ~QLt(max_exposure_per_asset_pct,
              QDiv(asset_exposure_usd, QInt(total_portfolio_usd)))

InitLoop ==
    /\ now = StartNow
    /\ ticks = 0
    /\ risk = RiskManagerInit(StartNow)
    /\ ret = NoRet
    /\ marks = 0
    /\ windows = RateLimiterInit
    /\ acq = NoAcq
    /\ hist = NoHist
    /\ limits = Limits
    /\ callers = NoCallers
    /\ sent = NoSent
    /\ \E u \in Universes : LoopStart(u)

\* lines 221-261: poll the prices, warm-up test, signals
Poll ==
    /\ pc = "poll"
    /\ cycles < MaxCycles
    /\ \E px \in VenuePrices(universe), failed \in SUBSET Keys(universe) :
         /\ Cardinality(failed) <= MaxFaults - faults
         /\ LET ps == [k \in Keys(universe) |->
                        LET p == px[TokOf(universe, k).address]
                        IN  IF k \in failed \/ p <= 0 THEN price_series[k]
                            ELSE DequeAppend(price_series[k], p, PriceSeriesMaxlen)]
                ready_count == Cardinality({k \in Keys(universe) : ready(ps[k], min_ready)})
            IN  /\ price_series' = ps
                /\ faults' = faults + Cardinality(failed)
                /\ cycles' = cycles + 1
                /\ IF ready_count < 2
                   THEN /\ pc' = "poll"
                        /\ now' = now + bar_sec
                        /\ c' = [NoCycle EXCEPT !.now = now, !.risk0 = risk,
                                    !.ps0 = price_series]
                   ELSE /\ pc' = "balances"
                        /\ now' = now
                        /\ c' = [NoCycle EXCEPT !.now = now, !.px = px,
                                    !.risk0 = risk, !.ps0 = price_series,
                                    !.signals = SignalsOf(KeySeq(universe), ps)]
    /\ UNCHANGED <<ticks, riskVars, rlVars, universe, strat, sig, last_rebalance, last_log,
                   eq_series, last_order>>

\* variant: no outer handler; the failure of rc.balances() ends the process
BalancesRaise_uncaught ==
    /\ pc = "balances"
    /\ faults < MaxFaults
    /\ faults' = faults + 1
    /\ pc' = "crashed"
    /\ UNCHANGED <<now, ticks, riskVars, rlVars, universe, strat, sig, cycles,
                   price_series, last_rebalance, last_log, eq_series, c, last_order>>

\* line 263 raises: the outer handler logs, sleeps 10 s and starts a new cycle
BalancesRaise ==
    /\ pc = "balances"
    /\ faults < MaxFaults
    /\ faults' = faults + 1
    /\ pc' = "poll"
    /\ now' = now + 100
    /\ UNCHANGED <<ticks, riskVars, rlVars, universe, strat, sig, cycles, price_series,
                   last_rebalance, last_log, eq_series, c, last_order>>

\* lines 263-277: balances, mark to market, final weights
Balances ==
    /\ pc = "balances"
    /\ \E b \in BalancesOf(universe) :
         \E failed \in SUBSET {b[i].tokenAddress : i \in {j \in DOMAIN b : b[j].symbol # "USDC"}} :
           /\ Cardinality(failed) <= MaxFaults - faults
           /\ LET mtm == mark_to_market_usd(b, c.px, failed)
              IN  /\ c' = [c EXCEPT !.bals = b, !.equity = mtm.total,
                                   !.exposures = mtm.exposures,
                                   !.signals = WithFinalWeights(c.signals),
                                   !.todo = KeySeq(universe)]
                  /\ eq_series' = Append(eq_series, mtm.total)
                  /\ faults' = faults + Cardinality(failed)
    /\ pc' = "exit"
    /\ UNCHANGED <<now, ticks, riskVars, rlVars, universe, strat, sig, cycles, price_series,
                   last_rebalance, last_log, last_order>>

\* the order record of a submission made now
OrderNow(kind, key, sell, buy, usd, res) ==
    [kind |-> kind, key |-> key, sell |-> sell, buy |-> buy, usd |-> usd,
     t |-> now, res |-> res,
     allowed |-> c.ok = "yes",
     stopped |-> risk.stopped,
     capped |-> (IF Day(now) # risk.day_start THEN 0 ELSE risk.daily_count)
                   >= max_daily_trades,
     cooling |-> now - risk.last_trade_ts < cooldown_seconds]

\* variant: no try around the order; an order that raises ends the cycle in
\* the outer handler
Submit_unguarded(kind, key, sell, buy, usd) ==
    \E res \in {"ok", "raise"}, d \in NetSteps :
      /\ res = "raise" => faults < MaxFaults
      /\ faults' = IF res = "raise" THEN faults + 1 ELSE faults
      /\ now' = IF res = "raise" THEN now + d + 100 ELSE now + d
      /\ last_order' = OrderNow(kind, key, sell, buy, usd, res)
      /\ risk' = after_submit(risk, now + d, res)
      /\ c' = [c EXCEPT !.todo = Tail(c.todo),
                        !.orders = Append(@, [kind |-> kind, res |-> res,
                                              marked |-> risk' # risk])]
      /\ pc' = IF res = "raise" THEN "poll" ELSE pc
      /\ UNCHANGED <<ticks, ret, marks, rlVars, universe, strat, sig, cycles, price_series,
                     last_rebalance, last_log, eq_series>>

\* one order handed to the executor: it returns or raises after some time;
\* the trade is recorded when it returned
Submit(kind, key, sell, buy, usd) ==
    \E res \in {"ok", "raise"}, d \in NetSteps :
      /\ res = "raise" => faults < MaxFaults
      /\ faults' = IF res = "raise" THEN faults + 1 ELSE faults
      /\ now' = now + d
      /\ last_order' = OrderNow(kind, key, sell, buy, usd, res)
      /\ risk' = after_submit(risk, now', res)
      /\ c' = [c EXCEPT !.todo = Tail(c.todo),
                        !.orders = Append(@, [kind |-> kind, res |-> res,
                                              marked |-> risk' # risk])]
      /\ pc' = pc
      /\ UNCHANGED <<ticks, ret, marks, rlVars, universe, strat, sig, cycles, price_series,
                     last_rebalance, last_log, eq_series>>

SkipOne ==
    /\ c' = [c EXCEPT !.todo = Tail(c.todo)]
    /\ UNCHANGED <<now, ticks, riskVars, rlVars, universe, strat, sig, pc, cycles, faults,
                   price_series, last_rebalance, last_log, eq_series, last_order>>

\* lines 279-302, for the token at the head of the pass
ExitWanted(key) ==
    LET tok == TokOf(universe, key)
        bal == get_token_balance(c.bals, tok.symbol, tok.chain, tok.specific)
        exposure == IF key \in DOMAIN c.exposures THEN c.exposures[key] ELSE 0
        should_exit ==
            IF ~HasSignal(c.signals, key) THEN TRUE
            ELSE /\ ready(price_series[key], min_ready)
                 /\ QLt(Momentum(price_series[key]), min_mom)
    IN  bal > 0 /\ exposure >= 1 /\ should_exit

\* lines 304-325: the exit order of one token
ExitSell ==
    /\ pc = "exit"
    /\ c.todo # << >>
    /\ LET key == Head(c.todo)
           tok == TokOf(universe, key)
           usdc_addr == UsdcAddr(universe, tok.specific)
       IN  /\ ExitWanted(key)
           /\ usdc_addr # ""
           /\ Submit("sell", key, tok.address, usdc_addr,
                     QInt(Min(c.exposures[key], per_trade_base_usd)))

\* lines 284-289, 304, 321-322: nothing held, nothing to exit, or no USDC
ExitSkip ==
    /\ pc = "exit"
    /\ c.todo # << >>
    /\ LET key == Head(c.todo)
       IN  ~ExitWanted(key) \/ UsdcAddr(universe, TokOf(universe, key).specific) = ""
    /\ SkipOne

ExitDone ==
    /\ pc = "exit"
    /\ c.todo = << >>
    /\ pc' = "rebalance"
    /\ UNCHANGED <<now, ticks, riskVars, rlVars, universe, strat, sig, cycles, faults,
                   price_series, last_rebalance, last_log, eq_series, c, last_order>>

\* variant: the ranked signals are not cut to max_assets
FirstN_uncut(seq, n) == seq

FirstN(seq, n) == IF Len(seq) <= n THEN seq ELSE SubSeq(seq, 1, n)

\* lines 327-338 and 387: the rebalance gate
Rebalance ==
    /\ pc = "rebalance"
    /\ IF c.now - last_rebalance >= rebalance_every
       THEN LET g == get_daily_trade_count(risk, now)
                res == check_pretrade(g.r, now, c.equity)
            IN  /\ risk' = res.r
                /\ ret' = [NoRet EXCEPT !.op = "check_pretrade", !.ok = res.ok,
                                        !.why = res.why, !.equity = c.equity]
                /\ last_rebalance' = c.now
                /\ c' = [c EXCEPT !.ok = IF res.ok THEN "yes" ELSE "no",
                                  !.todo = IF res.ok
                                           THEN FirstN(SortDesc(c.signals), max_assets)
                                           ELSE << >>]
                /\ pc' = IF res.ok THEN "buy" ELSE "telemetry"
       ELSE /\ pc' = "telemetry"
            /\ UNCHANGED <<risk, ret, last_rebalance, c>>
    /\ UNCHANGED <<now, ticks, marks, rlVars, universe, strat, sig, cycles, faults,
                   price_series, last_log, eq_series, last_order>>

\* lines 345-373: the size of the buy of one ranked signal, 0 when there is
\* no order to place
BuySize(sig_data) ==
    LET tok == TokOf(universe, sig_data.key)
        target_pct == QMul(sig_data.final_weight, QSub(QInt(1), target_cash_frac))
        target_usd == QMul(QInt(c.equity), target_pct)
        current_exp == IF sig_data.key \in DOMAIN c.exposures
                       THEN c.exposures[sig_data.key] ELSE 0
        delta_usd == QSub(target_usd, QInt(current_exp))
        trade_size == QMin(delta_usd, QInt(per_trade_base_usd))
    IN  IF /\ QLt(QInt(5), delta_usd)
           /\ check_trade_size(trade_size, c.equity)
           /\ check_asset_exposure(QAdd(QInt(current_exp), trade_size), c.equity)
           /\ UsdcAddr(universe, tok.specific) # ""
        THEN trade_size
        ELSE QInt(0)

\* lines 375-385: the buy order of one ranked signal
BuyOrder ==
    /\ pc = "buy"
    /\ c.todo # << >>
    /\ LET sig_data == Head(c.todo)
           tok == TokOf(universe, sig_data.key)
       IN  /\ BuySize(sig_data).n > 0
           /\ Submit("buy", sig_data.key, UsdcAddr(universe, tok.specific),
                     tok.address, BuySize(sig_data))

BuySkip ==
    /\ pc = "buy"
    /\ c.todo # << >>
    /\ BuySize(Head(c.todo)).n = 0
    /\ SkipOne

BuyDone ==
    /\ pc = "buy"
    /\ c.todo = << >>
    /\ pc' = "telemetry"
    /\ UNCHANGED <<now, ticks, riskVars, rlVars, universe, strat, sig, cycles, faults,
                   price_series, last_rebalance, last_log, eq_series, c, last_order>>

\* lines 389-402: telemetry when due, then sleep one bar
TelemetrySleep ==
    /\ pc = "telemetry"
    /\ LET due == Len(eq_series) >= 3 /\ c.now - last_log >= log_every
       IN  /\ risk' = IF due
                      THEN needs_more_trades(get_daily_trade_count(risk, now).r, now).r
                      ELSE risk
           /\ last_log' = IF due THEN c.now ELSE last_log
    /\ now' = now + bar_sec
    /\ pc' = "poll"
    /\ UNCHANGED <<ticks, ret, marks, rlVars, universe, strat, sig, cycles, faults,
                   price_series, last_rebalance, eq_series, c, last_order>>

NextLoop ==
    \/ Poll
    \/ BalancesRaise
    \/ Balances
    \/ ExitSell
    \/ ExitSkip
    \/ ExitDone
    \/ Rebalance
    \/ BuyOrder
    \/ BuySkip
    \/ BuyDone
    \/ TelemetrySleep

SpecLoop == InitLoop /\ [][NextLoop]_vars

(***************************************************************************)
(* Claims about the control loop                                           *)
(***************************************************************************)

\* a step that hands an order to the executor
IsSubmission == last_order' # last_order

\* C3: every order the loop has submitted, exit sell or rebalance buy, was
\* submitted in a cycle whose pretrade check had allowed it, and so not while
\* the risk manager was STOPPED, at the daily cap, or inside the cooldown.
C3_EveryOrderGated ==
    last_order.kind # "none" =>
        /\ last_order.allowed
        /\ ~last_order.stopped
        /\ ~last_order.capped
        /\ ~last_order.cooling

\* C4: a step records a trade exactly when it is an order submission that
\* returned without raising, and then records it exactly once, at the time the
\* submission returned; a skipped or rejected order, a submission that raised
\* and every other step of the loop record no trade.
C4_MarkOncePerSubmitted ==
    [][ IF IsSubmission /\ last_order'.res = "ok"
        THEN /\ risk'.daily_count = risk.daily_count + 1
             /\ risk'.last_trade_ts = now'
             /\ risk'.daily_trade_times = Append(risk.daily_trade_times, now')
        ELSE /\ risk'.daily_count <= risk.daily_count
             /\ risk'.last_trade_ts = risk.last_trade_ts
             /\ Len(risk'.daily_trade_times) <= Len(risk.daily_trade_times)
      ]_vars

\* a buy that returned has been recorded after an earlier recorded trade of
\* the same day
C4_Witness ==
    /\ last_order.kind = "buy"
    /\ last_order.res = "ok"
    /\ risk.last_trade_ts = last_order.t + 10
    /\ risk.daily_count = 2

\* C6: any two consecutive recorded trade times are at least cooldown_seconds
\* apart.
C6_CooldownSpacing ==
    \A i \in 1..(Len(risk.daily_trade_times) - 1) :
        risk.daily_trade_times[i + 1] - risk.daily_trade_times[i] >= cooldown_seconds

\* the recorded trades of the UTC day of the latest one
MarksOfLatestDay ==
    LET times == risk.daily_trade_times
    IN  IF times = << >> THEN 0
        ELSE Cardinality({i \in DOMAIN times : Day(times[i]) = Day(times[Len(times)])})

\* C25: within one UTC day no more than max_daily_trades trades are recorded,
\* exit sells and the buys of one rebalance pass included.
C25_DailyCapRespected ==
    /\ MarksOfLatestDay <= max_daily_trades
    /\ risk.daily_count <= max_daily_trades

\* C28: no order the loop submits sells and buys the same token; the exit
\* pass emits no sell of USDC for USDC.
C28_NoSelfSwap ==
    last_order.kind # "none" => last_order.sell # last_order.buy

\* the equity of the cycle had every price lookup of the mark to market
\* answered
TrueEquity == mark_to_market_usd(c.bals, c.px, {}).total

\* C26: a failed price lookup in the mark to market never causes the
\* transition to STOPPED: a pretrade check that stops the risk manager would
\* have stopped it on the equity of the same balances and prices with every
\* lookup answered.
C26_LookupFailureNeverStops ==
    [][ (pc = "rebalance" /\ ~risk.stopped /\ risk'.stopped) =>
            check_pretrade(get_daily_trade_count(risk, now).r, now, TrueEquity).r.stopped
      ]_vars

(***************************************************************************)
(* The control loop on the universe of one asset                           *)
(***************************************************************************)
InitHeld ==
    /\ now = StartNow
    /\ ticks = 0
    /\ risk = RiskManagerInit(StartNow)
    /\ ret = NoRet
    /\ marks = 0
    /\ windows = RateLimiterInit
    /\ acq = NoAcq
    /\ hist = NoHist
    /\ limits = Limits
    /\ callers = NoCallers
    /\ sent = NoSent
    /\ LoopStart(PairUniverse)

SpecHeld == InitHeld /\ [][NextLoop]_vars

(***************************************************************************)
(* The control loop with the keyboard interruption                         *)
(***************************************************************************)
\* lines 404-406: KeyboardInterrupt, raised at any point of the loop, breaks
\* out of it
Interrupt ==
    /\ pc \notin {"idle", "stopped"}
    /\ pc' = "stopped"
    /\ UNCHANGED <<now, ticks, riskVars, rlVars, universe, strat, sig, cycles, faults,
                   price_series, last_rebalance, last_log, eq_series, c, last_order>>

NextLive == NextLoop \/ Interrupt

\* the loop is one sequential thread: every call returns or raises (the HTTP
\* calls have timeouts and a bounded number of retries), every sleep ends
SpecLive == InitHeld /\ [][NextLive]_vars /\ WF_vars(NextLoop)

\* the buy orders the cycle has handed to the executor
BuysIssued == Cardinality({i \in DOMAIN c.orders : c.orders[i].kind = "buy"})

\* the calls of mark_trade in the cycle, and those made by the rebalance pass
MarksInCycle == Cardinality({i \in DOMAIN c.orders : c.orders[i].marked})
MarksInPass ==
    Cardinality({i \in DOMAIN c.orders : c.orders[i].kind = "buy" /\ c.orders[i].marked})

Rising(arr) == \A i \in 1..(Len(arr) - 1) : arr[i] < arr[i + 1]

\* the rebalance pass of the cycle was admitted by check_pretrade and has
\* ended, and the only signal of the cycle is an asset with a rising history
SingleRisingPassDone ==
    /\ pc = "telemetry"
    /\ c.ok = "yes"
    /\ Len(c.signals) = 1
    /\ Rising(price_series[c.signals[1].key])
    /\ QLt(QInt(0), _z(price_series[c.signals[1].key]))

IsPropagation == pc' = "poll" /\ pc \notin {"poll", "telemetry", "startup"}

\* C18: when a failure propagates out of the cycle body, the risk state is the
\* one the cycle began with, every price series is the one the cycle began
\* with or that one with the price its fetch returned appended, and the loop
\* sleeps 10 s and starts the cycle again.
C18_FailureLeavesRiskState ==
    [][ IsPropagation =>
          /\ risk' = c.risk0
          /\ \A k \in Keys(universe) :
                \/ price_series'[k] = c.ps0[k]
                \/ price_series'[k] =
                      DequeAppend(c.ps0[k], c.px[TokOf(universe, k).address],
                                  PriceSeriesMaxlen)
          /\ now' = now + 100
      ]_vars

\* the balances call of a cycle has raised after an earlier cycle had recorded
\* a trade and after this cycle's prices were appended
C18_Witness ==
    /\ pc = "poll"
    /\ c.px # << >>
    /\ c.bals = << >>
    /\ now = c.now + 100
    /\ risk.daily_count = 1
    /\ risk = c.risk0
    /\ price_series # c.ps0

\* an acquire of an endpoint name that contains none of the keywords
IsFallbackAcquire ==
    /\ acq'.name = "global_rpm"
    /\ <<windows, acq>>' # <<windows, acq>>

\* C14: an endpoint name without 'trade', 'price', 'balance' or 'portfolio'
\* is admitted exactly when the global per-minute window has a free slot, and
\* its admission adds an entry to no window other than the global per-minute
\* one.
C14_FallbackRpmOnly ==
    [][ IsFallbackAcquire =>
          /\ acq'.ok = (Len(_clean_window(windows["global_rpm"], now, 600))
                          < Limit("global_rpm"))
          /\ \A n \in WindowNames \ {"global_rpm"} :
                Len(windows'[n]) <= Len(windows[n])
      ]_vars

(***************************************************************************)
(* RecallClient in front of the rate limiter, one thread                   *)
(***************************************************************************)
MaxSent == 3

\* the ceiling RecallClient passes to wait_and_acquire: 30 s
client_max_wait == 300

\* the endpoint name each client method passes to _rate_limit_wait
ClientMethods == {"get_price", "quote", "execute", "balances", "get_tokens"}

EndpointOf(method) ==
    CASE method = "get_price" -> {"price"}
      [] method = "quote" -> {"trade"}
      [] method = "execute" -> {"trade"}
      [] method = "balances" -> {"balance"}
      [] method = "get_tokens" -> {"price"}

\* wait_and_acquire called by the only thread that uses the limiter: nothing
\* else touches the windows while it sleeps; t is the time it returns at
RECURSIVE wait_and_acquire(_, _, _, _)
wait_and_acquire(ws, t, endpoint, max_wait) ==
    LET res == acquire(ws, t, endpoint)
    IN  IF res.ok THEN [w |-> res.w, ok |-> TRUE, t |-> t]
        ELSE IF res.wait > max_wait THEN [w |-> res.w, ok |-> FALSE, t |-> t]
        ELSE wait_and_acquire(res.w, t + Min(res.wait, max_wait), endpoint, max_wait)

\* _rate_limit_wait logs the timeout; the request is sent either way
send_after_wait(ok) == TRUE

InitClient ==
    /\ now = StartNow
    /\ ticks = 0
    /\ risk = RiskManagerInit(StartNow)
    /\ ret = NoRet
    /\ marks = 0
    /\ windows = RateLimiterInit
    /\ acq = NoAcq
    /\ hist = NoHist
    /\ limits = Limits
    /\ callers = NoCallers
    /\ sent = NoSent
    /\ LoopIdle

TickClient(d) ==
    /\ ticks < MaxTicksRL
    /\ now' = now + d
    /\ ticks' = ticks + 1
    /\ sent' = Recent(sent, now')
    /\ acq' = NoAcq
    /\ UNCHANGED <<riskVars, windows, hist, limits, callers, loopVars>>

\* one request of the client: _rate_limit_wait(endpoint), then the HTTP call
ClientCall(method) ==
    /\ SumN(sent) < MaxSent
    /\ LET res == wait_and_acquire(windows, now, EndpointOf(method), client_max_wait)
           name == Classify(EndpointOf(method))
       IN  /\ windows' = res.w
           /\ now' = res.t
           /\ acq' = [name |-> name, ok |-> res.ok, wait |-> 0]
           /\ sent' = IF send_after_wait(res.ok)
                      THEN LogGrant(Recent(sent, res.t), res.t, name)
                      ELSE Recent(sent, res.t)
    /\ UNCHANGED <<ticks, riskVars, hist, limits, callers, loopVars>>

NextClient ==
    \/ \E d \in TickStepsRL : TickClient(d)
    \/ \E m \in ClientMethods : ClientCall(m)

SpecClient == InitClient /\ [][NextClient]_vars

\* requests of category `name` sent in the closed trailing interval of length d
SentOf(name, d) == SumN({e \in sent : e.name = name /\ e.t >= now - d})

\* all requests sent in the closed trailing interval of length d
SentAll(d) == SumN({e \in sent : e.t >= now - d})

\* C12: the requests the client has sent in the trailing 60 s stay within the
\* quota of their category and within the global per-minute quota, and the
\* requests sent in the trailing hour within the global per-hour quota.
C12_OutboundRateBounded ==
    /\ \A cat \in Categories : SentOf(cat, 600) <= Limit(cat)
    /\ SentAll(600) <= Limit("global_rpm")
    /\ SentAll(36000) <= Limit("global_rph")

(***************************************************************************)
(* Several threads in wait_and_acquire on one limiter                      *)
(*                                                                         *)
(* Here the present instant is the origin of the time axis: now stays 0    *)
(* and the passing of d moves every recorded timestamp d into the past.    *)
(* acquire reads timestamps only through now - timestamp, so this is the   *)
(* same limiter.  A timestamp older than its window's duration is purged   *)
(* before it is read again; such timestamps are kept at duration + 0.1 s.  *)
(***************************************************************************)
Threads == {"A", "B"}

\* the ceilings the threads call with: the client's 30 s, and 61 s
MaxWaits == {300, 610}

\* the limits of this limiter: one trade per minute, the global windows wide
WaitLimits ==
    [trade_operations |-> 1, price_queries |-> 1, balance_checks |-> 1,
     global_rpm |-> 3, global_rph |-> 100]

Duration(name) == IF name = "global_rph" THEN 36000 ELSE 600

\* the windows after d has passed
Aged(ws, d) ==
    [n \in WindowNames |->
        [i \in DOMAIN ws[n] |-> Max(ws[n][i] - d, 0 - (Duration(n) + 1))]]

\* the grant log after d has passed: the grants of the last minute
AgedLog(g, d) ==
    {[t |-> e.t - d, name |-> e.name, n |-> e.n] : e \in {x \in g : x.t - d >= 0 - 600}}

Idle == [pc |-> "idle", endpoint |-> {}, max_wait |-> 0, wake |-> 0, ret |-> "none"]

InitWait ==
    /\ now = 0
    /\ ticks = 0
    /\ risk = RiskManagerInit(0)
    /\ ret = NoRet
    /\ marks = 0
    /\ windows = RateLimiterInit
    /\ acq = NoAcq
    /\ hist = NoHist
    /\ limits = WaitLimits
    /\ callers = [th \in Threads |-> Idle]
    /\ sent = NoSent
    /\ LoopIdle

\* a thread enters wait_and_acquire(endpoint, max_wait)
Call(th, max_wait) ==
    /\ callers[th].pc = "idle"
    /\ callers' = [callers EXCEPT ![th] =
                      [pc |-> "acquire", endpoint |-> {"trade"},
                       max_wait |-> max_wait, wake |-> 0, ret |-> "none"]]
    /\ UNCHANGED <<now, ticks, riskVars, windows, acq, hist, limits, sent, loopVars>>

\* one turn of the loop of wait_and_acquire: acquire under the lock, then
\* return True, return False, or go to sleep for min(wait, max_wait)
Try(th) ==
    /\ callers[th].pc = "acquire"
    /\ LET me == callers[th]
           res == acquire(windows, now, me.endpoint)
       IN  /\ windows' = res.w
           /\ acq' = [name |-> Classify(me.endpoint), ok |-> res.ok, wait |-> res.wait]
           /\ hist' = IF res.ok THEN LogGrant(hist, now, Classify(me.endpoint)) ELSE hist
           /\ callers' = [callers EXCEPT ![th] =
                 IF res.ok THEN [Idle EXCEPT !.ret = "true"]
                 ELSE IF res.wait > me.max_wait THEN [Idle EXCEPT !.ret = "false"]
                 ELSE [me EXCEPT !.pc = "sleep", !.wake = Min(res.wait, me.max_wait)]]
    /\ UNCHANGED <<now, ticks, riskVars, limits, sent, loopVars>>

Sleepers == {th \in Threads : callers[th].pc = "sleep"}

\* time passes until the first sleeping thread wakes; a thread that can run
\* runs before the clock moves
Advance ==
    /\ Sleepers # {}
    /\ \A th \in Threads : callers[th].pc # "acquire"
    /\ LET d == CHOOSE x \in {callers[th].wake : th \in Sleepers} :
                   \A th \in Sleepers : x <= callers[th].wake
       IN  /\ windows' = Aged(windows, d)
           /\ hist' = AgedLog(hist, d)
           /\ callers' = [th \in Threads |->
                 IF callers[th].pc = "sleep"
                 THEN IF callers[th].wake = d
                      THEN [callers[th] EXCEPT !.pc = "acquire", !.wake = 0]
                      ELSE [callers[th] EXCEPT !.wake = @ - d]
                 ELSE [callers[th] EXCEPT !.ret = "none"]]
    /\ acq' = NoAcq
    /\ UNCHANGED <<now, ticks, riskVars, limits, sent, loopVars>>

NextWait ==
    \/ \E th \in Threads, mw \in MaxWaits : Call(th, mw)
    \/ \E th \in Threads : Try(th)
    \/ Advance

SpecWait == InitWait /\ [][NextWait]_vars

\* a thread that can run does run; time does not stand still: no thread can
\* call the limiter infinitely often within one instant
SpecWaitFair ==
    /\ SpecWait
    /\ \A th \in Threads : WF_vars(Try(th))
    /\ SF_vars(Advance)

\* C11: every call of wait_and_acquire returns: a thread that is inside the
\* call, trying or sleeping, is eventually outside it again with True or
\* False, whatever the other threads do.
C11_EveryCallReturns ==
    \A th \in Threads : (callers[th].pc # "idle") ~> (callers[th].pc = "idle")

NonDecreasing(w) == \A i \in 1..(Len(w) - 1) : w[i] <= w[i + 1]

\* C13: under every interleaving of the threads' acquire calls no window
\* holds more entries than its limit, the timestamps of every window are in
\* non-decreasing order, and the slots of a category granted in the trailing
\* 60 s, to whichever threads, are at most its quota.
C13_AtomicAcquire ==
    /\ \A n \in WindowNames : Len(windows[n]) <= Limit(n)
    /\ \A n \in WindowNames : NonDecreasing(windows[n])
    /\ \A cat \in Categories : GrantsOf(cat, 600) <= Limit(cat)

\* C13 witness: two threads have asked for the last free trade slot at the
\* same instant; one holds it, the other was denied and sleeps the full wait.
C13_Witness ==
    \E a \in Threads, b \in Threads :
        /\ a # b
        /\ callers[a].ret = "true"
        /\ callers[b].pc = "sleep"
        /\ callers[b].wake = 601
        /\ Len(windows["trade"]) = Limit("trade")
        /\ GrantsOf("trade", 600) = Limit("trade")

(***************************************************************************)
(* run() from the reading of the configuration on                          *)
(***************************************************************************)
\* the strategy sections run() is started with: the default one, and one
\* whose entry threshold lies below its exit threshold
StrategyConfigs ==
    { DefaultStrategy,
      [DefaultStrategy EXCEPT !.z_entry = Q(3, 10), !.z_exit = Q(8, 10)] }

InitRun ==
    /\ now = StartNow
    /\ ticks = 0
    /\ risk = RiskManagerInit(StartNow)
    /\ ret = NoRet
    /\ marks = 0
    /\ windows = RateLimiterInit
    /\ acq = NoAcq
    /\ hist = NoHist
    /\ limits = Limits
    /\ callers = NoCallers
    /\ sent = NoSent
    /\ \E u \in Universes, s \in StrategyConfigs :
         /\ universe = u
         /\ strat = s
         /\ price_series = [k \in Keys(u) |-> << >>]
    /\ sig = NoSignal
    /\ pc = "startup"
    /\ cycles = 0
    /\ faults = 0
    /\ last_rebalance = 0
    /\ last_log = 0
    /\ eq_series = << >>
    /\ c = NoCycle
    /\ last_order = NoOrder

\* lines 173-219: the thresholds are read and handed to MomVolSignal, which
\* stores them; nothing compares them, and the loop is entered
Startup ==
    /\ pc = "startup"
    /\ pc' = "poll"
    /\ UNCHANGED <<now, ticks, riskVars, rlVars, universe, strat, sig, cycles,
                   faults, price_series, last_rebalance, last_log, eq_series,
                   c, last_order>>

NextRun ==
    \/ Startup
    \/ NextLoop

SpecRun == InitRun /\ [][NextRun]_vars

\* C15: with z_entry <= z_exit the loop is never entered: run() is still at
\* its startup, no cycle has begun, no signal has been computed and no order
\* has been handed to the executor.
C15_DegenerateRejected ==
    QLe(z_entry, z_exit) =>
        /\ pc = "startup"
        /\ cycles = 0
        /\ c.signals = << >>
        /\ last_order.kind = "none"

(***************************************************************************)
(* The signal engine applied to one history                                *)
(***************************************************************************)
MaxHistory == 3

LookbackVals == {1, 2, 3}

\* pairs of thresholds with z_exit < z_entry
ThresholdPairs ==
    { [z_entry |-> Q(12, 10), z_exit |-> Q(3, 10)],
      [z_entry |-> Q(5, 10), z_exit |-> QInt(0)],
      [z_entry |-> Q(12, 10), z_exit |-> Q(-1, 10)] }

\* MomVolSignal(look_s, look_l, vol_look, z_entry, z_exit); the window of
\* np.std is kept to two prices, where the deviation is rational
SignalConfigs ==
    { [look_s |-> s, look_l |-> l, vol_look |-> v,
       z_entry |-> th.z_entry, z_exit |-> th.z_exit] :
         s \in LookbackVals, l \in LookbackVals, v \in {1, 2}, th \in ThresholdPairs }

RECURSIVE SeqsUpTo(_, _)
SeqsUpTo(S, n) ==
    IF n = 0 THEN { << >> }
    ELSE LET shorter == SeqsUpTo(S, n - 1)
         IN  shorter \cup {Append(h, x) : h \in shorter, x \in S}

Histories == SeqsUpTo(PriceVals, MaxHistory)

InitSignal ==
    /\ now = StartNow
    /\ ticks = 0
    /\ risk = RiskManagerInit(StartNow)
    /\ ret = NoRet
    /\ marks = 0
    /\ windows = RateLimiterInit
    /\ acq = NoAcq
    /\ hist = NoHist
    /\ limits = Limits
    /\ callers = NoCallers
    /\ sent = NoSent
    /\ universe = << >>
    /\ pc = "idle"
    /\ cycles = 0
    /\ faults = 0
    /\ price_series = << >>
    /\ last_rebalance = 0
    /\ last_log = 0
    /\ eq_series = << >>
    /\ c = NoCycle
    /\ last_order = NoOrder
    /\ strat \in SignalConfigs
    /\ \E h \in Histories : sig = [NoSignal EXCEPT !.arr = h]

\* z = sig._z(arr); weight = sig.decide_weight(arr)
Compute ==
    /\ ~sig.done
    /\ sig' = [arr |-> sig.arr, z |-> _z(sig.arr),
               weight |-> decide_weight(sig.arr), done |-> TRUE]
    /\ UNCHANGED <<now, ticks, riskVars, rlVars, universe, strat, pc, cycles,
                   faults, price_series, last_rebalance, last_log, eq_series,
                   c, last_order>>

NextSignal == Compute

SpecSignal == InitSignal /\ [][NextSignal]_vars

TooShort(arr) == Len(arr) < Max(look_l, vol_look)

Flat(arr) == arr # << >> /\ \A i \in DOMAIN arr : arr[i] = arr[1]

\* C16: for a history shorter than max(look_l, vol_look) and for a flat
\* history, the z-score is 0 and the weight is 0, whatever the windows and
\* the thresholds.
C16_NeutralIsZero ==
    (sig.done /\ (TooShort(sig.arr) \/ Flat(sig.arr))) =>
        /\ sig.z = QInt(0)
        /\ sig.weight = QInt(0)

(***************************************************************************)
(* Claims about the survival of the loop                                   *)
(***************************************************************************)
LoopHead == pc = "poll"

\* C19: after the loop has started, whatever price fetch, balances call,
\* mark-to-market price lookup or order fails, the pass goes on to its end or
\* the cycle is given up for a retry, and the loop comes back to the start of
\* a cycle, unless the keyboard interruption has stopped it; it stops in no
\* other way.
C19_LoopSurvivesFailures ==
    /\ (~LoopHead) ~> (LoopHead \/ pc = "stopped")
    /\ [](pc \in {"poll", "balances", "exit", "rebalance", "buy", "telemetry", "stopped"})

\* an order of the exit pass has raised and the pass is at its next token
C19_Witness ==
    /\ pc = "exit"
    /\ last_order.res = "raise"
    /\ c.todo # << >>
    /\ faults = MaxFaults

(***************************************************************************)
(* The price poll on the venue's raw answers                               *)
(*                                                                         *)
(* A float is a record: a finite number, an infinity with its sign, or     *)
(* NaN.                                                                    *)
(***************************************************************************)
MaxPolls == 24
MaxBad == 2

Fin(v) == [k |-> "fin", v |-> v]
Infinity == [k |-> "inf", v |-> 1]
NegInfinity == [k |-> "inf", v |-> -1]
NaN == [k |-> "nan", v |-> 0]

\* px > 0: false for NaN, decided by the sign otherwise
GtZero(px) == px.k # "nan" /\ px.v > 0

\* the truth value of a float in `a or b`: only zero is false
Truthy(x) == ~(x.k = "fin" /\ x.v = 0)

\* what the venue puts under "price" and under "prices.toToken"; Fin(0) also
\* stands for a key that is absent
PriceAnswers == {Fin(0), Fin(100), Fin(-5), NaN, Infinity, NegInfinity}
Responses == [price : PriceAnswers, toToken : {Fin(0), Fin(100)}]

\* line 230: float(p_resp.get("price") or
\*                 p_resp.get("prices", {}).get("toToken", 0) or 0)
price_of(p_resp) ==
    IF Truthy(p_resp.price) THEN p_resp.price
    ELSE IF Truthy(p_resp.toToken) THEN p_resp.toToken
    ELSE Fin(0)

\* lines 231-232: if px > 0: price_series[key].add(px)
add_if_positive(series, px) ==
    IF GtZero(px) THEN DequeAppend(series, px, PriceSeriesMaxlen) ELSE series

InitSeries ==
    /\ now = StartNow
    /\ ticks = 0
    /\ risk = RiskManagerInit(StartNow)
    /\ ret = NoRet
    /\ marks = 0
    /\ windows = RateLimiterInit
    /\ acq = NoAcq
    /\ hist = NoHist
    /\ limits = Limits
    /\ callers = NoCallers
    /\ sent = NoSent
    /\ LoopStart(PairUniverse)

\* lines 223-234 for one token: cycles counts the answers, faults those that
\* are not the price 100
PollOne(key, p_resp) ==
    /\ cycles < MaxPolls
    /\ price_of(p_resp) # Fin(100) => faults < MaxBad
    /\ cycles' = cycles + 1
    /\ faults' = IF price_of(p_resp) # Fin(100) THEN faults + 1 ELSE faults
    /\ price_series' =
          [price_series EXCEPT ![key] = add_if_positive(@, price_of(p_resp))]
    /\ UNCHANGED <<now, ticks, riskVars, rlVars, universe, strat, sig, pc,
                   last_rebalance, last_log, eq_series, c, last_order>>

NextSeries == \E p_resp \in Responses : PollOne("AAA_eth", p_resp)

SpecSeries == InitSeries /\ [][NextSeries]_vars

PositiveFinite(x) == x.k = "fin" /\ x.v > 0

\* C20: every price series has at most PriceSeriesMaxlen entries, all of them
\* positive finite prices, and changes only by the append of a positive
\* finite price at its end, with the eviction of its oldest entry when it was
\* full; zero, negative, NaN and infinite answers are not appended.
C20_BoundedPositiveFinite ==
    /\ [](\A key \in Keys(universe) :
            /\ Len(price_series[key]) <= PriceSeriesMaxlen
            /\ \A i \in DOMAIN price_series[key] :
                  PositiveFinite(price_series[key][i]))
    /\ [][\A key \in Keys(universe) :
            LET old == price_series[key]
                new == price_series'[key]
            IN  \/ new = old
                \/ /\ new # << >>
                   /\ PositiveFinite(new[Len(new)])
                   /\ SubSeq(new, 1, Len(new) - 1) =
                         (IF Len(old) = PriceSeriesMaxlen THEN Tail(old) ELSE old)
         ]_vars

(***************************************************************************)
(* check_asset_exposure applied to one exposure and one portfolio value    *)
(***************************************************************************)
ExposureVals == (0..10) \cup {34, 35, 36, 349, 350, 351}
TotalVals == {0, 1, 10, 100, 1000, 1001}

InitExposure == InitRisk

\* ok, _ = risk.check_asset_exposure(asset_exposure_usd, total_portfolio_usd)
CheckAssetExposure(x, total) ==
    /\ ret' = [NoRet EXCEPT !.op = "check_asset_exposure",
                            !.ok = check_asset_exposure(QInt(x), total),
                            !.val = x, !.equity = total]
    /\ UNCHANGED <<now, ticks, risk, marks, rlVars, loopVars>>

NextExposure == \E x \in ExposureVals, total \in TotalVals : CheckAssetExposure(x, total)

SpecExposure == InitExposure /\ [][NextExposure]_vars

\* C22: check_asset_exposure answers false exactly when the exposure exceeds
\* max_exposure_per_asset_pct of the portfolio value, for every portfolio
\* value from 0 on.
C22_ExposureCeiling ==
    ret.op = "check_asset_exposure" =>
        (ret.ok <=> ~QLt(QMul(max_exposure_per_asset_pct, QInt(ret.equity)),
                         QInt(ret.val)))

(***************************************************************************)
(* risk_parity_weights applied to one map of volatilities                  *)
(***************************************************************************)
MaxVols == 3

\* strictly positive volatilities: around the floor 1e-8 of the allocator
\* (5e-9, 1e-8, 2e-8, 4e-8), and of the size realized_vol returns
VolsNearFloor == {Q(1, 200000000), Q(1, 100000000), Q(1, 50000000), Q(1, 25000000)}
VolsOrdinary == {Q(1, 100), Q(2, 100), Q(4, 100)}

VolMaps ==
    (SeqsUpTo(VolsNearFloor, MaxVols) \cup SeqsUpTo(VolsOrdinary, MaxVols)) \ { << >> }

InitParity ==
    /\ now = StartNow
    /\ ticks = 0
    /\ risk = RiskManagerInit(StartNow)
    /\ ret = NoRet
    /\ marks = 0
    /\ windows = RateLimiterInit
    /\ acq = NoAcq
    /\ hist = NoHist
    /\ limits = Limits
    /\ callers = NoCallers
    /\ sent = NoSent
    /\ universe = << >>
    /\ pc = "idle"
    /\ cycles = 0
    /\ faults = 0
    /\ price_series = << >>
    /\ last_rebalance = 0
    /\ last_log = 0
    /\ eq_series = << >>
    /\ c = NoCycle
    /\ last_order = NoOrder
    /\ strat = DefaultStrategy
    /\ \E vols \in VolMaps : sig = [NoSignal EXCEPT !.arr = vols]

\* rp_weights = risk_parity_weights(vols_dict, long_only=True): arr holds the
\* volatilities, weight the weights returned
Allocate ==
    /\ ~sig.done
    /\ sig' = [sig EXCEPT !.weight = risk_parity_weights(sig.arr), !.done = TRUE]
    /\ UNCHANGED <<now, ticks, riskVars, rlVars, universe, strat, pc, cycles,
                   faults, price_series, last_rebalance, last_log, eq_series,
                   c, last_order>>

NextParity == Allocate

SpecParity == InitParity /\ [][NextParity]_vars

\* max(float(v), 1e-8)
Floored(v) == QMax(v, Q(1, 100000000))

\* C23 as stated: one weight per volatility, every weight >= 0, the weights
\* in the proportion of the inverses of the volatilities, and of sum 1.
C23_InverseVolWeights ==
    sig.done =>
        /\ DOMAIN sig.weight = DOMAIN sig.arr
        /\ \A i \in DOMAIN sig.weight : QLe(QInt(0), sig.weight[i])
        /\ \A i, j \in DOMAIN sig.weight :
              QMul(sig.weight[i], QDiv(sig.arr[i], sig.arr[j])) = sig.weight[j]
        /\ QSum(sig.weight) = QInt(1)

\* C23 (amended): one weight per volatility, every weight >= 0, the weights
\* in the proportion of the inverses of max(volatility, 1e-8), and of sum 1.
C23_InverseFlooredVolWeights ==
    sig.done =>
        /\ DOMAIN sig.weight = DOMAIN sig.arr
        /\ \A i \in DOMAIN sig.weight : QLe(QInt(0), sig.weight[i])
        /\ \A i, j \in DOMAIN sig.weight :
              QMul(sig.weight[i], QDiv(Floored(sig.arr[i]), Floored(sig.arr[j])))
                 = sig.weight[j]
        /\ QSum(sig.weight) = QInt(1)

\* three volatilities, one below the floor and two above it, with three
\* weights of which the first two differ
C23_Witness ==
    /\ sig.done
    /\ sig.arr = << Q(1, 200000000), Q(1, 50000000), Q(1, 25000000) >>
    /\ sig.weight = << Q(4, 7), Q(2, 7), Q(1, 7) >>


(***************************************************************************)
(* The control loop on a universe of more assets than max_assets           *)
(***************************************************************************)
InitWide ==
    /\ now = StartNow
    /\ ticks = 0
    /\ risk = RiskManagerInit(StartNow)
    /\ ret = NoRet
    /\ marks = 0
    /\ windows = RateLimiterInit
    /\ acq = NoAcq
    /\ hist = NoHist
    /\ limits = Limits
    /\ callers = NoCallers
    /\ sent = NoSent
    /\ LoopStart(WideUniverse)

SpecWide == InitWide /\ [][NextLoop]_vars

\* a step that hands a rebalance buy to the executor
IsBuy == IsSubmission /\ last_order'.kind = "buy"

\* the exposure the cycle has computed for a token
ExposureOf(key) == IF key \in DOMAIN c.exposures THEN c.exposures[key] ELSE 0

\* C24: every buy the rebalance pass emits has a size above 5 USD, at most
\* per_trade_base_usd and at most max_single_trade_pct of the cycle's equity,
\* the asset's exposure plus the size is at most max_exposure_per_asset_pct
\* of that equity, and one pass emits at most max_assets buys.
C24_BuyBounded ==
    [][ IsBuy =>
          LET size == last_order'.usd
              equity == QInt(c.equity)
          IN  /\ QLt(QInt(5), size)
              /\ QLe(size, QInt(per_trade_base_usd))
              /\ QLe(size, QMul(max_single_trade_pct, equity))
              /\ QLe(QAdd(QInt(ExposureOf(last_order'.key)), size),
                     QMul(max_exposure_per_asset_pct, equity))
              /\ BuysIssued' <= max_assets
      ]_vars

\* three assets carry a signal, one of them held below its target, and the
\* pass has bought max_assets of them and has ended
C24_Witness ==
    /\ Len(c.signals) = 3
    /\ BuysIssued = max_assets
    /\ pc = "telemetry"
    /\ last_order.kind = "buy"
    /\ last_order.t >= c.now
    /\ ExposureOf("AAA_eth") > 0
====
